---- MODULE Spec2Model ----
(***************************************************************************)
(* Model of the document ingestion service: the relational store           *)
(* (Category, File, Chunk rows), the vector collection, the upload         *)
(* directory, the Celery tasks running process_file_task and the HTTP      *)
(* handlers that upload, delete and search.                                *)
(*                                                                         *)
(* Granularity: one action per call that reads or writes a store another   *)
(* process can touch (a query, a commit, a collection call) and one per    *)
(* external service call.  Statements between two such calls only touch    *)
(* the handler's own locals and belong to the action of the next call.     *)
(* A search handler is one action: it writes nothing, and its query of     *)
(* the Category row only decides whether the collection is read.           *)
(*                                                                         *)
(* Row ids are allocated increasing and are not reused.                    *)
(*                                                                         *)
(* Spec is ingestion and deletion.  ApiSpec adds the search endpoints and  *)
(* the rejected uploads, which only read, over behaviours of ApiMaxFiles   *)
(* accepted uploads.                                                       *)
(***************************************************************************)
EXTENDS Integers, Sequences, FiniteSets, TLC

\* ------------------------------------------------------------- bounds ----
MaxFiles == 2           \* accepted uploads over one behaviour
MaxCategories == 2      \* categories created over one behaviour
MaxDocs == 2            \* fragments a paginated extractor yields at most
MaxChunksPerDoc == 1    \* chunks the splitter cuts one fragment into at most
Concurrency == 2        \* tasks the worker pool runs at the same time

\* uuid.uuid4().hex[:8]: every draw gives the same suffix, the case in which
\* the random part of a chunk id separates nothing
UuidSuffixes == {"9f8e7d6c"}

\* ------------------------------------------------------------ values -----
NoReq == [op |-> "none"]
NoResponse == [op |-> "none"]
None == ""

VARIABLES
    categories,     \* ids of the Category rows
    nextCategoryId,
    files,          \* File rows: id -> row
    nextFileId,
    chunks,         \* Chunk rows
    collection,     \* entries of the vector collection
    disk,           \* ids of the files whose bytes are in the upload directory
    tasks,          \* dispatched process_file tasks: task id -> state
    request,        \* the HTTP request in flight, with the call it is at
    response        \* what the step just taken answered, for a rejected
                    \* upload and for the endpoints that only read

vars == <<categories, nextCategoryId, files, nextFileId, chunks, collection,
          disk, tasks, request, response>>

\* ------------------------------------------------------------- rows ------
\* Variant: processed_at takes the time of the insert, as uploaded_at does
NewFile_ProcessedAtDefault(category_id, file_type) ==
    [category_id |-> category_id, file_type |-> file_type,
     status |-> "pending", task_id |-> 0, error_message |-> None,
     total_chunks |-> 0, processed_at |-> TRUE]

\* models.File: column defaults
NewFile(category_id, file_type) ==
    [category_id |-> category_id, file_type |-> file_type,
     status |-> "pending", task_id |-> 0, error_message |-> None,
     total_chunks |-> 0, processed_at |-> FALSE]

FileExists(f) == f \in DOMAIN files

ChunksOfFile(f) == {c \in chunks : c.file_id = f}

EntriesOfFile(f) == {e \in collection : e.file_id = f}

EntriesOfCategory(c) == {e \in collection : e.category_id = c}

FilesOfCategory(c) == {f \in DOMAIN files : files[f].category_id = c}

\* A function without the keys in S
Without(fn, S) == [k \in DOMAIN fn \ S |-> fn[k]]

Init ==
    /\ categories = {}
    /\ nextCategoryId = 1
    /\ files = << >>
    /\ nextFileId = 1
    /\ chunks = {}
    /\ collection = {}
    /\ disk = {}
    /\ tasks = << >>
    /\ request = NoReq
    /\ response = NoResponse

\* --------------------------------------------------------- categories ----
\* POST /api/categories/create
\* (the name is one no Category row has: the rows are known by their ids)
create_category ==
    /\ nextCategoryId <= MaxCategories
    /\ categories' = categories \cup {nextCategoryId}
    /\ nextCategoryId' = nextCategoryId + 1
    /\ response' = NoResponse
    /\ UNCHANGED <<files, nextFileId, chunks, collection, disk, tasks, request>>

\* ------------------------------------------------------------- upload ----
ALLOWED_EXTENSIONS ==
    {".pdf", ".doc", ".docx", ".xls", ".xlsx", ".txt", ".csv",
     ".jpg", ".jpeg", ".png", ".bmp", ".tiff",
     ".ppt", ".pptx", ".json", ".sql", ".xml"}

validate_file(file_ext) == file_ext \in ALLOWED_EXTENSIONS

\* A queued process_file task
NewTask(file_id) ==
    [file_id |-> file_id, pc |-> "queued", category_id |-> 0,
     documents |-> << >>, suffix |-> << >>, exc |-> None, bad |-> FALSE,
     result |-> [status |-> "none", message |-> None, total_chunks |-> 0]]

\* settings.MAX_FILE_SIZE_MB
MAX_FILE_SIZE_MB == 50

max_size == MAX_FILE_SIZE_MB * 1024 * 1024

\* raise HTTPException(status_code, ...)
HTTPException(op, status_code) == [op |-> op, status_code |-> status_code]

\* The checks upload_file makes before it writes anything, in their order:
\* the status code of the exception of the first that fails, 200 if none does
upload_file_checks(category_id, file_ext, file_size) ==
    IF category_id \notin categories THEN 404
    ELSE IF ~validate_file(file_ext) THEN 400
    ELSE IF file_size > max_size THEN 400
    ELSE 200

\* upload_file up to the first commit: the checks, the copy to the upload
\* directory and the pending File row
upload_file_create(category_id, file_ext, file_size) ==
    /\ request = NoReq
    /\ nextFileId <= MaxFiles
    /\ upload_file_checks(category_id, file_ext, file_size) = 200
    /\ disk' = disk \cup {nextFileId}
    /\ files' = files @@ (nextFileId :> NewFile(category_id, file_ext))
    /\ nextFileId' = nextFileId + 1
    /\ request' = [op |-> "upload_dispatch", file_id |-> nextFileId]
    /\ response' = NoResponse
    /\ UNCHANGED <<categories, nextCategoryId, chunks, collection, tasks>>

\* Variant: the size is checked after the File row was committed
upload_file_rejected_AfterCommit(category_id, file_ext, file_size) ==
    /\ request = NoReq
    /\ upload_file_checks(category_id, file_ext, file_size) # 200
    /\ response' = HTTPException("upload_file",
                        upload_file_checks(category_id, file_ext, file_size))
    /\ IF category_id \in categories /\ validate_file(file_ext)
          /\ nextFileId <= MaxFiles
       THEN /\ files' = files @@ (nextFileId :> NewFile(category_id, file_ext))
            /\ nextFileId' = nextFileId + 1
       ELSE UNCHANGED <<files, nextFileId>>
    /\ UNCHANGED <<categories, nextCategoryId, chunks, collection, disk,
                   tasks, request>>

\* upload_file when one of its checks raises: nothing was written yet
upload_file_rejected(category_id, file_ext, file_size) ==
    /\ request = NoReq
    /\ upload_file_checks(category_id, file_ext, file_size) # 200
    /\ response' = HTTPException("upload_file",
                        upload_file_checks(category_id, file_ext, file_size))
    /\ UNCHANGED <<categories, nextCategoryId, files, nextFileId, chunks,
                   collection, disk, tasks, request>>

\* Variant: the task message is sent a second time
upload_file_dispatch_Twice ==
    /\ request.op = "upload_dispatch"
    /\ tasks' = Append(Append(tasks, NewTask(request.file_id)),
                       NewTask(request.file_id))
    /\ request' = [op |-> "upload_task_id", file_id |-> request.file_id,
                     task_id |-> Len(tasks) + 1]
    /\ response' = NoResponse
    /\ UNCHANGED <<categories, nextCategoryId, files, nextFileId, chunks,
                   collection, disk>>

\* process_file_task.apply_async(args=[db_file.id])
upload_file_dispatch ==
    /\ request.op = "upload_dispatch"
    /\ tasks' = Append(tasks, NewTask(request.file_id))
    /\ request' = [op |-> "upload_task_id", file_id |-> request.file_id,
                     task_id |-> Len(tasks) + 1]
    /\ response' = NoResponse
    /\ UNCHANGED <<categories, nextCategoryId, files, nextFileId, chunks,
                   collection, disk>>

\* Variant: the flush writes back every column of the object the upload
\* created, the status it was created with included
TaskIdRowAllColumns(row, task_id) ==
    [row EXCEPT !.task_id = task_id, !.status = "pending"]

\* db_file.task_id = task.id: the one column the flush writes
TaskIdRow(row, task_id) == [row EXCEPT !.task_id = task_id]

\* Variant: the commit writes the object back as the upload created it,
\* with the task id
upload_file_task_id_StaleObject ==
    /\ request.op = "upload_task_id"
    /\ files' = IF FileExists(request.file_id)
                THEN [files EXCEPT ![request.file_id] =
                        TaskIdRow(NewFile(@.category_id, @.file_type),
                                  request.task_id)]
                ELSE files
    /\ request' = NoReq
    /\ response' = NoResponse
    /\ UNCHANGED <<categories, nextCategoryId, nextFileId, chunks, collection,
                   disk, tasks>>

\* db_file.task_id = task.id; db.commit(): an UPDATE of the task_id column
\* of the row, which matches no row when the File is gone
upload_file_task_id ==
    /\ request.op = "upload_task_id"
    /\ files' = IF FileExists(request.file_id)
                THEN [files EXCEPT ![request.file_id] = TaskIdRow(@, request.task_id)]
                ELSE files
    /\ request' = NoReq
    /\ response' = NoResponse
    /\ UNCHANGED <<categories, nextCategoryId, nextFileId, chunks, collection,
                   disk, tasks>>

\* --------------------------------------------------------- extraction ----
\* A fragment is modelled by the number of chunks the splitter cuts its text
\* into: 0 is a fragment whose text is empty or only whitespace.
\* _process_pdf keeps only the pages with text; _process_txt returns the one
\* fragment whatever its text.
process_file(file_type) ==
    IF file_type = ".pdf"
    THEN UNION {[1..n -> 1..MaxChunksPerDoc] : n \in 0..MaxDocs}
    ELSE {<<k>> : k \in 0..MaxChunksPerDoc}

\* Variant: without the "if not text or not text.strip()" return, the
\* splitter makes one chunk of a blank text
chunk_text_NoBlankReturn(text) ==
    [i \in 1..(IF text = 0 THEN 1 ELSE text) |-> [chunk_index |-> i - 1]]

\* ChunkingService.chunk_text: [] for blank text, else the chunks numbered from 0
chunk_text(text) == [i \in 1..text |-> [chunk_index |-> i - 1]]

\* all_chunks.extend(chunks) over the fragments in order
RECURSIVE all_chunks(_)
all_chunks(documents) ==
    IF documents = << >> THEN << >>
    ELSE chunk_text(Head(documents)) \o all_chunks(Tail(documents))

\* Variant: the id made of the index and the random suffix only
chunk_id_NoFileId(file_id, idx, hex) == <<"chunk", idx, hex>>

\* f"file_{file_id}_chunk_{idx}_{uuid.uuid4().hex[:8]}"
chunk_id(file_id, idx, hex) == <<"file", file_id, "chunk", idx, hex>>

\* --------------------------------------------------------------- task ----
Running == {t \in DOMAIN tasks : tasks[t].pc \notin {"queued", "done"}}

\* The task has left process_file_task: with the dictionary it returned, or
\* (status "raised") with the exception that left it.  exc keeps the exception
\* the try block raised, if one was raised.
Finish(task, status, message, total) ==
    [task EXCEPT !.pc = "done", !.documents = << >>, !.suffix = << >>,
                 !.bad = FALSE, !.category_id = 0,
                 !.result = [status |-> status, message |-> message,
                             total_chunks |-> total]]

\* raise inside the try block: control goes to the except clause
Raise(task, e, bad) ==
    [task EXCEPT !.pc = "except", !.exc = e, !.bad = bad,
                 !.documents = << >>, !.suffix = << >>]

TaskFrame ==
    /\ response' = NoResponse
    /\ UNCHANGED <<categories, nextCategoryId, nextFileId, disk, request>>

\* db = SessionLocal(); file = db.query(File)...first(); if not file: return
task_start(t) ==
    /\ tasks[t].pc = "queued"
    /\ Cardinality(Running) < Concurrency
    /\ \E session_ok \in BOOLEAN :
         tasks' = [tasks EXCEPT ![t] =
            IF ~session_ok THEN Finish(@, "raised", "SessionError", 0)
            ELSE IF ~FileExists(@.file_id)
                 THEN Finish(@, "error", "File not found", 0)
                 ELSE [@ EXCEPT !.pc = "set_processing"]]
    /\ UNCHANGED <<files, chunks, collection>>
    /\ TaskFrame

\* A commit of an update of the File row: the UPDATE matches no row when the
\* File was deleted (StaleDataError), or the database fails
CommitRaises(f, db_ok) ==
    IF ~FileExists(f) THEN "StaleDataError"
    ELSE IF ~db_ok THEN "OperationalError" ELSE None

\* file.status = "processing"
ProcessingRow(row) == [row EXCEPT !.status = "processing"]

\* Variant: the time the processing ended is recorded for a failure too
FailedRow_StampsProcessedAt(row, message) ==
    [row EXCEPT !.status = "failed", !.error_message = message,
                !.processed_at = TRUE]

\* file.status = "failed"; file.error_message = ...
FailedRow(row, message) ==
    [row EXCEPT !.status = "failed", !.error_message = message]

\* Variant: total_chunks taken from the loop variable idx, the last index
CompletedRowLastIndex(row, n) ==
    [row EXCEPT !.status = "completed", !.total_chunks = n - 1,
                !.processed_at = TRUE]

\* file.status = "completed"; file.total_chunks = len(all_chunks);
\* file.processed_at = datetime.utcnow()
CompletedRow(row, n) ==
    [row EXCEPT !.status = "completed", !.total_chunks = n, !.processed_at = TRUE]

\* file.status = "processing"; db.commit()
task_commit_processing(t) ==
    /\ tasks[t].pc = "set_processing"
    /\ \E db_ok \in BOOLEAN :
         LET f == tasks[t].file_id
             e == CommitRaises(f, db_ok) IN
         IF e # None
         THEN /\ tasks' = [tasks EXCEPT ![t] = Raise(@, e, TRUE)]
              /\ UNCHANGED files
         ELSE /\ files' = [files EXCEPT ![f] = ProcessingRow(@)]
              /\ tasks' = [tasks EXCEPT ![t].pc = "extract"]
    /\ UNCHANGED <<chunks, collection>>
    /\ TaskFrame

\* The first read of the expired file object reloads the row
\* (ObjectDeletedError when it is gone); then file_processor.process_file
task_extract(t) ==
    /\ tasks[t].pc = "extract"
    /\ LET f == tasks[t].file_id IN
       \/ /\ ~FileExists(f)
          /\ tasks' = [tasks EXCEPT ![t] = Raise(@, "ObjectDeletedError", FALSE)]
       \/ /\ FileExists(f)
          /\ tasks' = [tasks EXCEPT ![t] = Raise(@, "ExtractionError", FALSE)]
       \/ /\ FileExists(f)
          /\ f \in disk
          /\ \E documents \in process_file(files[f].file_type) :
               tasks' = [tasks EXCEPT ![t] =
                  [@ EXCEPT !.category_id = files[f].category_id,
                            !.documents = documents,
                            !.pc = IF documents = << >> THEN "no_text" ELSE "chunk"]]
    /\ UNCHANGED <<files, chunks, collection>>
    /\ TaskFrame

\* Step 2: chunk every document
task_chunk(t) ==
    /\ tasks[t].pc = "chunk"
    /\ \/ tasks' = [tasks EXCEPT ![t] = Raise(@, "ChunkingError", FALSE)]
       \/ tasks' = [tasks EXCEPT ![t].pc =
             IF all_chunks(tasks[t].documents) = << >> THEN "no_chunks" ELSE "embed"]
    /\ UNCHANGED <<files, chunks, collection>>
    /\ TaskFrame

\* Step 3: embeddings_service.generate_embeddings_batch(chunk_texts)
task_embed(t) ==
    /\ tasks[t].pc = "embed"
    /\ \/ tasks' = [tasks EXCEPT ![t] = Raise(@, "EmbeddingServiceError", FALSE)]
       \/ tasks' = [tasks EXCEPT ![t].pc = "persist"]
    /\ UNCHANGED <<files, chunks, collection>>
    /\ TaskFrame

\* Variant: the loop counts from 1 (enumerate(all_chunks, 1)) for the index
\* it stores
ChunkRows_IndexFromOne(file_id, n, suffix) ==
    {[file_id |-> file_id, chunk_id |-> chunk_id(file_id, idx, suffix[idx + 1]),
      chunk_index |-> idx + 1] : idx \in 0..(n - 1)}

\* The Chunk rows the loop of step 4 adds to the session
ChunkRows(file_id, n, suffix) ==
    {[file_id |-> file_id, chunk_id |-> chunk_id(file_id, idx, suffix[idx + 1]),
      chunk_index |-> idx] : idx \in 0..(n - 1)}

\* The ids, metadatas of the same loop, as the entries add_chunks stores
ChunkEntries(file_id, category_id, n, suffix) ==
    {[id |-> chunk_id(file_id, idx, suffix[idx + 1]), file_id |-> file_id,
      category_id |-> category_id, chunk_index |-> idx] : idx \in 0..(n - 1)}

\* Variant: the collection is given the chunks in the step that writes the
\* rows, before their commit is known to have succeeded
task_persist_chunks_AddsFirst(t) ==
    /\ tasks[t].pc = "persist"
    /\ LET n == Len(all_chunks(tasks[t].documents)) IN
       \E db_ok \in BOOLEAN, suffix \in [1..n -> UuidSuffixes] :
         /\ collection' = collection \cup
                ChunkEntries(tasks[t].file_id, tasks[t].category_id, n, suffix)
         /\ IF ~db_ok
            THEN /\ tasks' = [tasks EXCEPT ![t] = Raise(@, "OperationalError", TRUE)]
                 /\ UNCHANGED chunks
            ELSE /\ chunks' = chunks \cup ChunkRows(tasks[t].file_id, n, suffix)
                 /\ tasks' = [tasks EXCEPT ![t].pc = "set_completed",
                                           ![t].suffix = suffix]
    /\ UNCHANGED files
    /\ TaskFrame

\* Variant: a commit after every row of the loop, so that the rows before
\* the one whose commit fails stay
task_persist_chunks_RowByRow(t) ==
    /\ tasks[t].pc = "persist"
    /\ LET n == Len(all_chunks(tasks[t].documents)) IN
       \E k \in 0..n, suffix \in [1..n -> UuidSuffixes] :
         /\ chunks' = chunks \cup {r \in ChunkRows(tasks[t].file_id, n, suffix) :
                                     r.chunk_index < k}
         /\ tasks' = [tasks EXCEPT ![t] =
               IF k < n THEN Raise(@, "OperationalError", TRUE)
               ELSE [@ EXCEPT !.pc = "add_chunks", !.suffix = suffix]]
    /\ UNCHANGED <<files, collection>>
    /\ TaskFrame

\* Step 4: one Chunk row per chunk, then db.commit().  The INSERTs do not
\* depend on the File row being there; one of a chunk_id a row already has
\* breaks the unique constraint of Chunk.chunk_id.
task_persist_chunks(t) ==
    /\ tasks[t].pc = "persist"
    /\ LET n == Len(all_chunks(tasks[t].documents)) IN
       \E db_ok \in BOOLEAN, suffix \in [1..n -> UuidSuffixes] :
         LET e == IF ~db_ok THEN "OperationalError"
                  ELSE IF \E r \in ChunkRows(tasks[t].file_id, n, suffix) :
                              r.chunk_id \in {c.chunk_id : c \in chunks}
                       THEN "IntegrityError" ELSE None IN
         IF e # None
         THEN /\ tasks' = [tasks EXCEPT ![t] = Raise(@, e, TRUE)]
              /\ UNCHANGED chunks
         ELSE /\ chunks' = chunks \cup ChunkRows(tasks[t].file_id, n, suffix)
              /\ tasks' = [tasks EXCEPT ![t].pc = "add_chunks", ![t].suffix = suffix]
    /\ UNCHANGED <<files, collection>>
    /\ TaskFrame

\* Variant: after an add that failed the collection is cleared of what the
\* add may have left, by the category of the File
task_add_chunks_CleansCategory(t) ==
    /\ tasks[t].pc = "add_chunks"
    /\ LET n == Len(all_chunks(tasks[t].documents)) IN
       \E success \in BOOLEAN :
         IF success
         THEN /\ collection' = collection \cup
                     ChunkEntries(tasks[t].file_id, tasks[t].category_id, n,
                                  tasks[t].suffix)
              /\ tasks' = [tasks EXCEPT ![t].pc = "set_completed"]
         ELSE /\ collection' = {e \in collection :
                                    e.category_id # tasks[t].category_id}
              /\ tasks' = [tasks EXCEPT ![t].pc = "add_failed"]
    /\ UNCHANGED <<files, chunks>>
    /\ TaskFrame

\* Step 5: vector_store_service.add_chunks, which returns False when the
\* collection raises
task_add_chunks(t) ==
    /\ tasks[t].pc = "add_chunks"
    /\ LET n == Len(all_chunks(tasks[t].documents)) IN
       \E success \in BOOLEAN :
         IF success
         THEN /\ collection' = collection \cup
                     ChunkEntries(tasks[t].file_id, tasks[t].category_id, n,
                                  tasks[t].suffix)
              /\ tasks' = [tasks EXCEPT ![t].pc = "set_completed"]
         ELSE /\ UNCHANGED collection
              /\ tasks' = [tasks EXCEPT ![t].pc = "add_failed"]
    /\ UNCHANGED <<files, chunks>>
    /\ TaskFrame

\* The three early exits: (error_message, returned message)
FailureOf(pc) ==
    CASE pc = "no_text" -> <<"No text extracted from file", "No text extracted">>
      [] pc = "no_chunks" -> <<"No chunks created", "No chunks created">>
      [] pc = "add_failed" -> <<"Failed to add to vector store",
                                "Failed to add to vector store">>

\* file.status = "failed"; file.error_message = ...; db.commit(); return
task_commit_failed(t) ==
    /\ tasks[t].pc \in {"no_text", "no_chunks", "add_failed"}
    /\ \E db_ok \in BOOLEAN :
         LET f == tasks[t].file_id
             e == CommitRaises(f, db_ok)
             m == FailureOf(tasks[t].pc) IN
         IF e # None
         THEN /\ tasks' = [tasks EXCEPT ![t] = Raise(@, e, TRUE)]
              /\ UNCHANGED files
         ELSE /\ files' = [files EXCEPT ![f] = FailedRow(@, m[1])]
              /\ tasks' = [tasks EXCEPT ![t] = Finish(@, "error", m[2], 0)]
    /\ UNCHANGED <<chunks, collection>>
    /\ TaskFrame

\* Variant: the session is rolled back when the commit raises, so that the
\* except clause can write the failed status
task_commit_completed_RollsBack(t) ==
    /\ tasks[t].pc = "set_completed"
    /\ \E db_ok \in BOOLEAN :
         LET f == tasks[t].file_id
             e == CommitRaises(f, db_ok)
             n == Len(all_chunks(tasks[t].documents)) IN
         IF e # None
         THEN /\ tasks' = [tasks EXCEPT ![t] = Raise(@, e, FALSE)]
              /\ UNCHANGED files
         ELSE /\ files' = [files EXCEPT ![f] = CompletedRow(@, n)]
              /\ tasks' = [tasks EXCEPT ![t] = Finish(@, "success", None, n)]
    /\ UNCHANGED <<chunks, collection>>
    /\ TaskFrame

\* The update of the completed File; db.commit(); return
task_commit_completed(t) ==
    /\ tasks[t].pc = "set_completed"
    /\ \E db_ok \in BOOLEAN :
         LET f == tasks[t].file_id
             e == CommitRaises(f, db_ok)
             n == Len(all_chunks(tasks[t].documents)) IN
         IF e # None
         THEN /\ tasks' = [tasks EXCEPT ![t] = Raise(@, e, TRUE)]
              /\ UNCHANGED files
         ELSE /\ files' = [files EXCEPT ![f] = CompletedRow(@, n)]
              /\ tasks' = [tasks EXCEPT ![t] = Finish(@, "success", None, n)]
    /\ UNCHANGED <<chunks, collection>>
    /\ TaskFrame

\* except Exception as e: file = db.query(File)...first().  The session was
\* not rolled back: after a commit that raised, the query raises
\* (PendingRollbackError) and leaves the task.
task_except_query(t) ==
    /\ tasks[t].pc = "except"
    /\ \E db_ok \in BOOLEAN :
         tasks' = [tasks EXCEPT ![t] =
            IF @.bad THEN Finish(@, "raised", "PendingRollbackError", 0)
            ELSE IF ~db_ok THEN Finish(@, "raised", "OperationalError", 0)
            ELSE IF ~FileExists(@.file_id) THEN Finish(@, "error", @.exc, 0)
            ELSE [@ EXCEPT !.pc = "except_commit"]]
    /\ UNCHANGED <<files, chunks, collection>>
    /\ TaskFrame

\* file.status = "failed"; file.error_message = str(e); db.commit(); return
task_except_commit(t) ==
    /\ tasks[t].pc = "except_commit"
    /\ \E db_ok \in BOOLEAN :
         LET f == tasks[t].file_id
             e == CommitRaises(f, db_ok) IN
         IF e # None
         THEN /\ tasks' = [tasks EXCEPT ![t] = Finish(@, "raised", e, 0)]
              /\ UNCHANGED files
         ELSE /\ files' = [files EXCEPT ![f] = FailedRow(@, tasks[t].exc)]
              /\ tasks' = [tasks EXCEPT ![t] = Finish(@, "error", tasks[t].exc, 0)]
    /\ UNCHANGED <<chunks, collection>>
    /\ TaskFrame

\* ------------------------------------------------------------ deletes ----
\* Variant: the delete is given the id of one matching entry
delete_by_file_id_One(file_id, ok) ==
    IF ok /\ EntriesOfFile(file_id) # {}
    THEN collection \ {CHOOSE e \in EntriesOfFile(file_id) : TRUE}
    ELSE collection

\* VectorStoreService.delete_by_file_id: the collection after the call; a
\* failure of the collection is logged and False is returned
delete_by_file_id(file_id, ok) ==
    IF ok THEN collection \ EntriesOfFile(file_id) ELSE collection

\* VectorStoreService.delete_by_category_id
delete_by_category_id(category_id, ok) ==
    IF ok THEN collection \ EntriesOfCategory(category_id) ELSE collection

\* delete_file up to os.remove: the query, the vector-store delete (its
\* result is not looked at), the removal of the bytes
delete_file_vector(file_id) ==
    /\ request = NoReq
    /\ FileExists(file_id)
    /\ \E ok \in BOOLEAN : collection' = delete_by_file_id(file_id, ok)
    /\ disk' = disk \ {file_id}
    /\ request' = [op |-> "delete_file", file_id |-> file_id]
    /\ response' = NoResponse
    /\ UNCHANGED <<categories, nextCategoryId, files, nextFileId, chunks, tasks>>

\* db.delete(file); db.commit(): the row and, by the relationship's cascade,
\* its Chunk rows
delete_file_commit ==
    /\ request.op = "delete_file"
    /\ files' = Without(files, {request.file_id})
    /\ chunks' = chunks \ ChunksOfFile(request.file_id)
    /\ request' = NoReq
    /\ response' = NoResponse
    /\ UNCHANGED <<categories, nextCategoryId, nextFileId, collection, disk,
                   tasks>>

\* delete_category up to the vector-store delete
delete_category_vector(category_id) ==
    /\ request = NoReq
    /\ category_id \in categories
    /\ \E ok \in BOOLEAN : collection' = delete_by_category_id(category_id, ok)
    /\ request' = [op |-> "delete_category", category_id |-> category_id]
    /\ response' = NoResponse
    /\ UNCHANGED <<categories, nextCategoryId, files, nextFileId, chunks, disk,
                   tasks>>

\* db.delete(category); db.commit(): the row, its File rows and their Chunk
\* rows, by the cascades of the two relationships
delete_category_commit ==
    /\ request.op = "delete_category"
    /\ LET owned == FilesOfCategory(request.category_id) IN
         /\ files' = Without(files, owned)
         /\ chunks' = {c \in chunks : c.file_id \notin owned}
    /\ categories' = categories \ {request.category_id}
    /\ request' = NoReq
    /\ response' = NoResponse
    /\ UNCHANGED <<nextCategoryId, nextFileId, collection, disk, tasks>>

UploadExts == {".pdf", ".txt"}

\* Sizes in bytes on both sides of the limit
FileSizes == {1, max_size, max_size + 1}

Next ==
    \/ create_category
    \/ \E c \in 1..MaxCategories, ext \in UploadExts, size \in FileSizes :
          upload_file_create(c, ext, size)
    \/ upload_file_dispatch
    \/ upload_file_task_id
    \/ \E t \in DOMAIN tasks : task_start(t)
    \/ \E t \in DOMAIN tasks : task_commit_processing(t)
    \/ \E t \in DOMAIN tasks : task_extract(t)
    \/ \E t \in DOMAIN tasks : task_chunk(t)
    \/ \E t \in DOMAIN tasks : task_embed(t)
    \/ \E t \in DOMAIN tasks : task_persist_chunks(t)
    \/ \E t \in DOMAIN tasks : task_add_chunks(t)
    \/ \E t \in DOMAIN tasks : task_commit_failed(t)
    \/ \E t \in DOMAIN tasks : task_commit_completed(t)
    \/ \E t \in DOMAIN tasks : task_except_query(t)
    \/ \E t \in DOMAIN tasks : task_except_commit(t)
    \/ \E f \in 1..MaxFiles : delete_file_vector(f)
    \/ delete_file_commit
    \/ \E c \in 1..MaxCategories : delete_category_vector(c)
    \/ delete_category_commit

Spec == Init /\ [][Next]_vars

\* ---------------------------------------------------------- retrieval ----
MaxTopK == 2        \* top_k of a request at most
ApiMaxFiles == 1    \* accepted uploads over one behaviour of ApiSpec

Min(a, b) == IF a < b THEN a ELSE b

\* Variant: the query is sent without the where filter
search_NoWhere(category_id, top_k, ok) ==
    IF ~ok THEN {{}}
    ELSE {R \in SUBSET collection :
             Cardinality(R) = Min(top_k, Cardinality(collection))}

\* VectorStoreService.search: the result lists (as sets) the call can return.
\* collection.query gives the n_results = top_k nearest of the entries that
\* match where = {"category_id": category_id}, fewer when fewer match; which
\* are nearest is not modelled.  [] when the collection raises.
search(category_id, top_k, ok) ==
    IF ~ok THEN {{}}
    ELSE {R \in SUBSET EntriesOfCategory(category_id) :
             Cardinality(R) =
                Min(top_k, Cardinality(EntriesOfCategory(category_id)))}

\* VectorStoreService.get_all_chunks_by_category: [] when the collection raises
get_all_chunks_by_category(category_id, ok) ==
    IF ok THEN EntriesOfCategory(category_id) ELSE {}

\* What became of the read of the collection a request made
Read(ok) == IF ok THEN "done" ELSE "failed"

\* raise HTTPException(status_code=500, ...) of a search endpoint; read is
\* not part of the response: "none" when the collection was not read yet
SearchError(op, read) ==
    [op |-> op, status_code |-> 500, read |-> read]

\* A 200 response of a search endpoint, with the same read
Response(op, category_id, top_k, answer, confidence_score, results, synthesized, read) ==
    [op |-> op, status_code |-> 200, category_id |-> category_id,
     top_k |-> top_k, answer |-> answer, confidence_score |-> confidence_score,
     results |-> results, synthesized |-> synthesized, read |-> read]

RetrievalFrame ==
    UNCHANGED <<categories, nextCategoryId, files, nextFileId, chunks,
                collection, disk, tasks, request>>

\* Variant: no return when nothing was found
AnswerFromSearch_NoShortCircuit(op, category_id, top_k, fallback) ==
    IF category_id \notin categories
    THEN response' = HTTPException(op, 404)
    ELSE \/ response' = SearchError(op, "none")
         \/ \E ok \in BOOLEAN :
              \E search_results \in search(category_id, top_k, ok) :
                 \/ response' = SearchError(op, Read(ok))
                 \/ response' = Response(op, category_id, top_k, "generated",
                                         "generated", search_results, TRUE,
                                         Read(ok))

\* The body search_query and question_answer share: the category check, the
\* embedding of the query, the search, the fixed answer when nothing was
\* found, else the answer of gemini_service; an exception inside the try
\* block becomes a 500
AnswerFromSearch(op, category_id, top_k, fallback) ==
    IF category_id \notin categories
    THEN response' = HTTPException(op, 404)
    ELSE \/ response' = SearchError(op, "none")
         \/ \E ok \in BOOLEAN :
              \E search_results \in search(category_id, top_k, ok) :
                 IF search_results = {}
                 THEN response' = Response(op, category_id, top_k, fallback,
                                           "0.0", {}, FALSE, Read(ok))
                 ELSE \/ response' = SearchError(op, Read(ok))
                      \/ response' = Response(op, category_id, top_k,
                                              "generated", "generated",
                                              search_results, TRUE, Read(ok))

\* POST /api/search/query
search_query(category_id, top_k) ==
    /\ AnswerFromSearch("search_query", category_id, top_k,
                        "No relevant documents found for your query.")
    /\ RetrievalFrame

\* POST /api/search/qa
question_answer(category_id, top_k) ==
    /\ AnswerFromSearch("question_answer", category_id, top_k,
           "I couldn't find relevant information to answer your question.")
    /\ RetrievalFrame

\* Variant: the entries of Files that are gone are removed on the way
find_passages_Prunes(category_id, top_k) ==
    /\ category_id \in categories
    /\ \E ok \in BOOLEAN : \E search_results \in search(category_id, top_k, ok) :
          response' = Response("find_passages", category_id, top_k, None,
                               None, search_results, FALSE, Read(ok))
    /\ collection' = {e \in collection : FileExists(e.file_id)}
    /\ UNCHANGED <<categories, nextCategoryId, files, nextFileId, chunks,
                   disk, tasks, request>>

\* POST /api/search/find-passages: the passages found, none included
find_passages(category_id, top_k) ==
    /\ IF category_id \notin categories
       THEN response' = HTTPException("find_passages", 404)
       ELSE \/ response' = SearchError("find_passages", "none")
            \/ \E ok \in BOOLEAN :
                 \E search_results \in search(category_id, top_k, ok) :
                    response' = Response("find_passages", category_id, top_k,
                                         None, None, search_results, FALSE,
                                         Read(ok))
    /\ RetrievalFrame

\* Variant: get_all_chunks_by_category without its try block
summarize_category_NoCatch(category_id) ==
    /\ IF category_id \notin categories
       THEN response' = HTTPException("summarize_category", 404)
       ELSE \E ok \in BOOLEAN :
              IF ~ok THEN response' = SearchError("summarize_category", Read(ok))
              ELSE response' = Response("summarize_category", category_id, 0,
                                  "generated", "generated", {}, TRUE, Read(ok))
    /\ RetrievalFrame

\* POST /api/search/summarize
summarize_category(category_id) ==
    /\ IF category_id \notin categories
       THEN response' = HTTPException("summarize_category", 404)
       ELSE \E ok \in BOOLEAN :
              LET all == get_all_chunks_by_category(category_id, ok) IN
              IF all = {}
              THEN response' = Response("summarize_category", category_id, 0,
                                  "No documents found in this category.", "0.0",
                                  {}, FALSE, Read(ok))
              ELSE \/ response' = SearchError("summarize_category", Read(ok))
                   \/ response' = Response("summarize_category", category_id, 0,
                                      "generated", "generated", {}, TRUE,
                                      Read(ok))
    /\ RetrievalFrame

\* ------------------------------------------------------------ polling ----
NoResult == [status |-> "none", message |-> None, total_chunks |-> 0]

\* celery_app.AsyncResult(task_id): the state, result and info the result
\* backend has of the task.  A task that returned is SUCCESS whatever the
\* dictionary it returned; a task an exception left is FAILURE; an id that
\* was never dispatched is PENDING.  (task_track_started=True)
AsyncResult(task_id) ==
    IF task_id \notin DOMAIN tasks \/ tasks[task_id].pc = "queued"
    THEN [state |-> "PENDING", result |-> NoResult, info |-> None]
    ELSE IF tasks[task_id].pc # "done"
    THEN [state |-> "STARTED", result |-> NoResult, info |-> None]
    ELSE IF tasks[task_id].result.status = "raised"
    THEN [state |-> "FAILURE", result |-> NoResult,
          info |-> tasks[task_id].result.message]
    ELSE [state |-> "SUCCESS", result |-> tasks[task_id].result, info |-> None]

\* Variant: the result is not copied into the response
get_task_status_NoResult(task_id) ==
    /\ LET task == AsyncResult(task_id) IN
         response' = [op |-> "get_task_status", task_id |-> task_id,
                      status |-> task.state, result |-> NoResult,
                      error |-> IF task.state = "FAILURE" THEN task.info ELSE None]
    /\ RetrievalFrame

\* GET /api/files/status/{task_id}
get_task_status(task_id) ==
    /\ LET task == AsyncResult(task_id) IN
         response' = [op |-> "get_task_status", task_id |-> task_id,
                      status |-> task.state,
                      result |-> IF task.state = "SUCCESS" THEN task.result
                                 ELSE NoResult,
                      error |-> IF task.state = "FAILURE" THEN task.info ELSE None]
    /\ RetrievalFrame

\* GET /api/files/list: category_id 0 stands for no filter, and is falsy
list_files(category_id) ==
    /\ response' =
          [op |-> "list_files",
           result |-> {[id |-> f, category_id |-> files[f].category_id,
                        status |-> files[f].status,
                        total_chunks |-> files[f].total_chunks] :
                       f \in IF category_id = 0 THEN DOMAIN files
                             ELSE FilesOfCategory(category_id)}]
    /\ RetrievalFrame

\* GET /api/files/{file_id}
get_file_status(file_id) ==
    /\ response' =
          IF ~FileExists(file_id) THEN HTTPException("get_file_status", 404)
          ELSE [op |-> "get_file_status", status_code |-> 200,
                file_id |-> file_id, status |-> files[file_id].status,
                total_chunks |-> files[file_id].total_chunks,
                error_message |-> files[file_id].error_message,
                processed_at |-> files[file_id].processed_at]
    /\ RetrievalFrame

RejectedExts == {".exe"}

\* The service with its search and polling endpoints and its rejected uploads
NextApi ==
    \/ Next /\ nextFileId' <= ApiMaxFiles + 1
    \/ \E c \in 1..MaxCategories, ext \in UploadExts \cup RejectedExts,
          size \in FileSizes : upload_file_rejected(c, ext, size)
    \/ \E c \in 1..MaxCategories, k \in 1..MaxTopK : search_query(c, k)
    \/ \E c \in 1..MaxCategories, k \in 1..MaxTopK : question_answer(c, k)
    \/ \E c \in 1..MaxCategories, k \in 1..MaxTopK : find_passages(c, k)
    \/ \E c \in 1..MaxCategories : summarize_category(c)
    \/ \E t \in 1..MaxFiles : get_task_status(t)
    \/ \E c \in 0..MaxCategories : list_files(c)
    \/ \E f \in 1..MaxFiles : get_file_status(f)

ApiSpec == Init /\ [][NextApi]_vars

\* --------------------------------------------------------- confidence ----
\* Distances are in thousandths, confidences in hundredths.
MaxDistance == 2200     \* the largest distance, in thousandths

Distances == (2000 - MaxDistance)..MaxDistance

\* Variant: without max(0.0, min(1.0, ...))
distance_to_confidence_NoClamp(distance, half_up) ==
    LET x == 2000 - distance
        q == x \div 20
        r == x % 20 IN
    IF r < 10 THEN q
    ELSE IF r > 10 THEN q + 1
    ELSE IF half_up THEN q + 1 ELSE q

\* distance_to_confidence: round(max(0.0, min(1.0, 1.0 - distance / 2.0)), 2).
\* x is the clamped value in two-thousandths.  A value halfway between two
\* hundredths is a float next to the half, which round() takes up or down:
\* half_up says which.
distance_to_confidence(distance, half_up) ==
    LET v == 2000 - distance
        x == IF v < 0 THEN 0 ELSE IF v > 2000 THEN 2000 ELSE v
        q == x \div 20
        r == x % 20 IN
    IF r < 10 THEN q
    ELSE IF r > 10 THEN q + 1
    ELSE IF half_up THEN q + 1 ELSE q

\* SearchResult(..., confidence_score=distance_to_confidence(distance)) for
\* one result of a search
format_result(distance) ==
    /\ \E half_up \in BOOLEAN :
          response' = [op |-> "format_result", distance |-> distance,
                       confidence_score |->
                           distance_to_confidence(distance, half_up)]
    /\ RetrievalFrame

NextConfidence == \E distance \in Distances : format_result(distance)

ConfidenceSpec == Init /\ [][NextConfidence]_vars

\* ------------------------------------------------------------ claims -----
StatusMoves ==
    {<<"pending", "processing">>, <<"processing", "completed">>,
     <<"processing", "failed">>}

C2_RaiseEndsFailed ==
    \A t \in DOMAIN tasks :
        (/\ tasks[t].pc = "done"
         /\ tasks[t].exc # None
         /\ FileExists(tasks[t].file_id)) =>
            /\ files[tasks[t].file_id].status = "failed"
            /\ files[tasks[t].file_id].error_message = tasks[t].exc

\* C3: a task that has left process_file_task left it by returning a
\* dictionary whose status is "success" or "error", never by an exception.
C3_NeverPropagates ==
    \A t \in DOMAIN tasks :
        tasks[t].pc = "done" => tasks[t].result.status \in {"success", "error"}

\* C4: the File of an accepted upload, unless deleted, reaches completed or
\* failed.  The task of a File is its only run, so the claim requires that
\* when that task has ended the File, if still there, is completed or failed.
C4_RunEndsTerminal ==
    \A t \in DOMAIN tasks :
        (tasks[t].pc = "done" /\ FileExists(tasks[t].file_id)) =>
            files[tasks[t].file_id].status \in {"completed", "failed"}

\* C5: the step in which a run over N chunks returns the success outcome
\* leaves File.total_chunks = N, N entries of the collection with the file's
\* id and N Chunk rows with the file's id.
C5_RoundTrip ==
    [][\A t \in DOMAIN tasks :
         (tasks[t].pc # "done" /\ tasks'[t].pc = "done"
            /\ tasks'[t].result.status = "success") =>
            LET f == tasks[t].file_id
                N == Len(all_chunks(tasks[t].documents)) IN
            /\ f \in DOMAIN files'
            /\ files'[f].total_chunks = N
            /\ Cardinality({e \in collection' : e.file_id = f}) = N
            /\ Cardinality({c \in chunks' : c.file_id = f}) = N]_vars

\* C6: a completed File has total_chunks equal to the number of its Chunk
\* rows; a pending, processing or failed File has total_chunks = 0.
C6_TotalChunks ==
    \A f \in DOMAIN files :
        /\ files[f].status = "completed" =>
              files[f].total_chunks = Cardinality(ChunksOfFile(f))
        /\ files[f].status \in {"pending", "processing", "failed"} =>
              files[f].total_chunks = 0

\* A completed File of two chunks beside a File that failed at the vector
\* store with its Chunk rows committed
C6_Witness ==
    \E f, g \in DOMAIN files :
        /\ files[f].status = "completed"
        /\ files[f].total_chunks = 2
        /\ files[g].status = "failed"
        /\ files[g].error_message = "Failed to add to vector store"
        /\ ChunksOfFile(g) # {}

\* A run is between its two writes after the commit of its Chunk rows and
\* before add_chunks; a delete is after its vector-store delete and before
\* its commit.
BetweenWrites ==
    \/ \E t \in DOMAIN tasks : tasks[t].pc = "add_chunks"
    \/ request.op \in {"delete_file", "delete_category"}

\* C7: when no run and no delete is between its two writes, the chunk_ids of
\* the Chunk rows are the ids of the entries of the collection.
C7_Lockstep ==
    ~BetweenWrites => {c.chunk_id : c \in chunks} = {e.id : e \in collection}

\* C8: the step in which delete_category(c) returns leaves no File row of c,
\* no Chunk row of a File of c and no entry of the collection tagged c.
C8_DeleteCategoryCascades ==
    [][delete_category_commit =>
        LET c == request.category_id
            owned == FilesOfCategory(c) IN
        /\ \A f \in DOMAIN files' : files'[f].category_id # c
        /\ \A r \in chunks' : r.file_id \notin owned
        /\ \A e \in collection' : e.category_id # c]_vars

\* C9: once every task has ended and no request is in flight, every Chunk
\* row and every entry of the collection is of a File row that exists, and
\* every File row is of a Category row that exists.
C9_NoOrphans ==
    ((\A t \in DOMAIN tasks : tasks[t].pc = "done") /\ request = NoReq) =>
        /\ \A r \in chunks : FileExists(r.file_id)
        /\ \A e \in collection : FileExists(e.file_id)
        /\ \A f \in DOMAIN files : files[f].category_id \in categories

\* C10: the step in which delete_file(f) returns leaves no Chunk row and no
\* entry of the collection of f, and neither step of delete_file changes
\* the row, the Chunk rows or the entries of another File.
C10_DeleteFileFrame ==
    [][\A f \in DOMAIN files :
         (delete_file_vector(f) \/ (delete_file_commit /\ request.file_id = f)) =>
            /\ delete_file_commit =>
                  /\ \A r \in chunks' : r.file_id # f
                  /\ \A e \in collection' : e.file_id # f
            /\ \A g \in DOMAIN files \ {f} :
                  /\ g \in DOMAIN files'
                  /\ files'[g] = files[g]
                  /\ {r \in chunks' : r.file_id = g} = ChunksOfFile(g)
                  /\ {e \in collection' : e.file_id = g} = EntriesOfFile(g)]_vars

\* No fragment with text: the extractor returned none, or only blank ones
NoFragmentRemains(documents) ==
    \A i \in DOMAIN documents : documents[i] = 0

C12_EmbeddingFailure ==
    \A t \in DOMAIN tasks :
        (/\ tasks[t].exc = "EmbeddingServiceError"
         /\ tasks[t].pc = "done"
         /\ FileExists(tasks[t].file_id)) =>
            /\ files[tasks[t].file_id].status = "failed"
            /\ ChunksOfFile(tasks[t].file_id) = {}
            /\ EntriesOfFile(tasks[t].file_id) = {}

\* C13: the step that follows an add_chunks that returned False is the
\* return of the run, with the outcome "error", the File failed with the
\* error "Failed to add to vector store" and total_chunks 0, and the Chunk
\* rows committed by step 4 still there.
C13_AddFailureEndsFailed ==
    [][\A t \in DOMAIN tasks :
         (tasks[t].pc = "add_failed" /\ tasks'[t] # tasks[t]) =>
            LET f == tasks[t].file_id
                N == Len(all_chunks(tasks[t].documents)) IN
            /\ tasks'[t].pc = "done"
            /\ tasks'[t].result.status = "error"
            /\ f \in DOMAIN files'
            /\ files'[f].status = "failed"
            /\ files'[f].error_message = "Failed to add to vector store"
            /\ files'[f].total_chunks = 0
            /\ Cardinality({r \in chunks' : r.file_id = f}) = N]_vars

\* C14: no two Chunk rows have the same chunk_id, no two entries of the
\* collection have the same id, and no run fails on the unique constraint of
\* chunk_id, whatever the interleaving of the runs.
C14_ChunkIdsDistinct ==
    /\ \A r1, r2 \in chunks : r1.chunk_id = r2.chunk_id => r1 = r2
    /\ \A e1, e2 \in collection : e1.id = e2.id => e1 = e2
    /\ \A t \in DOMAIN tasks : tasks[t].exc # "IntegrityError"

\* Two runs of Files of one category at the completed commit at the same
\* time, each with its two Chunk rows and its two entries written
C14_Witness ==
    \E t, u \in DOMAIN tasks :
        /\ t # u
        /\ tasks[t].pc = "set_completed" /\ tasks[u].pc = "set_completed"
        /\ tasks[t].category_id = tasks[u].category_id
        /\ Cardinality(ChunksOfFile(tasks[t].file_id)) = 2
        /\ Cardinality(ChunksOfFile(tasks[u].file_id)) = 2
        /\ Cardinality(collection) = 4

\* C15: the commit of an accepted upload adds one File row, of a new id; a
\* File id has no run while its upload is before apply_async and one run from
\* then on, never two; and a File that is failed is failed after every step
\* that leaves it in the table.
C15_OneRunPerFile ==
    [][/\ \A f \in 1..(nextFileId' - 1) :
             Cardinality({t \in DOMAIN tasks' : tasks'[t].file_id = f}) =
                IF request'.op = "upload_dispatch" /\ request'.file_id = f
                THEN 0 ELSE 1
       /\ nextFileId' # nextFileId =>
             /\ nextFileId \notin DOMAIN files
             /\ DOMAIN files' = DOMAIN files \cup {nextFileId}
             /\ nextFileId' = nextFileId + 1
       /\ nextFileId' = nextFileId => DOMAIN files' \subseteq DOMAIN files
       /\ \A f \in DOMAIN files \cap DOMAIN files' :
             files[f].status = "failed" => files'[f].status = "failed"]_vars

\* The run of a failed File has ended, the File is still failed and a
\* second File has its one run in progress
C15_Witness ==
    \E t, u \in DOMAIN tasks :
        /\ tasks[t].pc = "done"
        /\ FileExists(tasks[t].file_id)
        /\ files[tasks[t].file_id].status = "failed"
        /\ tasks[u].file_id # tasks[t].file_id
        /\ tasks[u].pc = "persist"
        /\ Len(tasks) = nextFileId - 1

\* C16: a step that answers an upload with a rejection leaves the File rows,
\* the tasks, the Chunk rows and the entries of the collection as they were;
\* and a step creates a File row only for a category that exists, an
\* extension of the allow-list and a size of at most MAX_FILE_SIZE_MB.
C16_RejectedUploadChangesNothing ==
    [][/\ response'.op = "upload_file" =>
             /\ response'.status_code \in {400, 404}
             /\ UNCHANGED <<files, nextFileId, tasks, chunks, collection>>
       /\ \A c \in 1..MaxCategories, ext \in UploadExts \cup RejectedExts,
             size \in FileSizes :
             (\/ c \notin categories
              \/ ext \notin ALLOWED_EXTENSIONS
              \/ size > MAX_FILE_SIZE_MB * 1024 * 1024) =>
                /\ ~upload_file_create(c, ext, size)
                /\ upload_file_rejected(c, ext, size) =>
                      UNCHANGED <<files, nextFileId, tasks, chunks, collection>>
      ]_vars

\* An upload was just rejected for its extension or size while the File of
\* an earlier upload is being processed
C16_Witness ==
    /\ response = HTTPException("upload_file", 400)
    /\ \E t \in DOMAIN tasks :
          /\ tasks[t].pc = "add_chunks"
          /\ FileExists(tasks[t].file_id)

SearchOps == {"search_query", "question_answer", "find_passages"}

\* C17: every result of a 200 response of search_query, question_answer or
\* find_passages for category c is an entry of the collection whose
\* category_id is c, of a File that (if it is still there) is a File of c,
\* and the results are at most top_k.
C17_CategoryIsolation ==
    (response.op \in SearchOps /\ response.status_code = 200) =>
        /\ response.results \subseteq collection
        /\ \A e \in response.results :
              /\ e.category_id = response.category_id
              /\ FileExists(e.file_id) =>
                    files[e.file_id].category_id = response.category_id
        /\ Cardinality(response.results) <= response.top_k

\* A request with top_k = 1 for a category of two entries got one of them
C17_Witness ==
    /\ response.op \in SearchOps
    /\ response.status_code = 200
    /\ response.top_k = 1
    /\ Cardinality(response.results) = 1
    /\ Cardinality(EntriesOfCategory(response.category_id)) = 2

\* C18: a 200 response of search_query whose search found nothing has the
\* answer "No relevant documents found for your query.", confidence 0.0 and
\* no results, and gemini_service was not called for it.
C18_NoResultsFallback ==
    (/\ response.op = "search_query"
     /\ response.status_code = 200
     /\ response.results = {}) =>
        /\ response.answer = "No relevant documents found for your query."
        /\ response.confidence_score = "0.0"
        /\ ~response.synthesized

\* The search succeeded and found nothing: the File of the category is
\* still being processed
C18_Witness ==
    /\ response.op = "search_query"
    /\ response.status_code = 200
    /\ response.read = "done"
    /\ response.results = {}
    /\ \E f \in DOMAIN files :
          /\ files[f].category_id = response.category_id
          /\ files[f].status = "processing"

EmptyAnswer(op) ==
    CASE op = "search_query" -> "No relevant documents found for your query."
      [] op = "question_answer" ->
            "I couldn't find relevant information to answer your question."
      [] op = "summarize_category" -> "No documents found in this category."
      [] op = "find_passages" -> None

\* C19: a request of a search endpoint whose read of the collection failed
\* is answered with 200, by the endpoint's answer for nothing found, with
\* no results and without a call of gemini_service.
C19_ReadFailureFallback ==
    (/\ response.op \in SearchOps \cup {"summarize_category"}
     /\ response.status_code # 404
     /\ response.read = "failed") =>
        /\ response.status_code = 200
        /\ response.results = {}
        /\ response.answer = EmptyAnswer(response.op)
        /\ ~response.synthesized

\* The fetch of a category that has entries failed
C19_Witness ==
    /\ response.op = "summarize_category"
    /\ response.status_code = 200
    /\ response.read = "failed"
    /\ EntriesOfCategory(response.category_id) # {}

\* C20: a step that answers a request of a search endpoint changes no
\* Category, File or Chunk row, no entry of the collection, no task and no
\* request in flight.
C20_RetrievalReadOnly ==
    [][response'.op \in SearchOps \cup {"summarize_category"} =>
          UNCHANGED <<categories, nextCategoryId, files, nextFileId, chunks,
                      collection, disk, tasks, request>>]_vars

\* Passages were returned while entries of a deleted File are in the
\* collection
C20_Witness ==
    /\ response.op = "find_passages"
    /\ response.status_code = 200
    /\ response.results # {}
    /\ \E e \in collection : ~FileExists(e.file_id)

\* C21: the confidence of a distance d is in [0, 1], is 1.0 at d = 0, 0.5
\* at d = 1 and 0.0 at d = 2 (and 1.0 below 0, 0.0 above 2), is a hundredth
\* nearest to 1 - d/2 clamped to [0, 1], and is not below the confidence of
\* the next larger distance.
C21_DistanceToConfidence ==
    response.op = "format_result" =>
        LET d == response.distance
            c == response.confidence_score
            v == 2000 - d
            clamped == IF v < 0 THEN 0 ELSE IF v > 2000 THEN 2000 ELSE v IN
        /\ c \in 0..100
        /\ d = 0 => c = 100
        /\ d = 1000 => c = 50
        /\ d = 2000 => c = 0
        /\ d < 0 => c = 100
        /\ d > 2000 => c = 0
        /\ 20 * c - clamped \in -10..10
        /\ \A half_up \in BOOLEAN : distance_to_confidence(d + 1, half_up) <= c

\* A distance below 0 was given the confidence 1.0
C21_Witness ==
    /\ response.op = "format_result"
    /\ response.distance < 0
    /\ response.confidence_score = 100

C23_TaskStatusError ==
    (response.op = "get_task_status" /\ response.task_id \in DOMAIN tasks) =>
        LET task == tasks[response.task_id] IN
        /\ (task.pc = "done" /\ task.result.status = "success") =>
              /\ response.result # NoResult
              /\ response.error = None
        /\ (/\ task.pc = "done"
            /\ FileExists(task.file_id)
            /\ files[task.file_id].status = "failed") =>
              response.error # None

\* C23 (amended): get_task_status for a task that returned, with the
\* success outcome or with the error outcome of a run whose File ended
\* failed, answers SUCCESS with the dictionary the task returned as result
\* and no error; that dictionary has the status "error" when the File is
\* failed.  It answers FAILURE with an error string, and no result, only
\* for a task an exception left; and with neither for a task that has not
\* ended.
C23_TaskStatusOutcome ==
    (response.op = "get_task_status" /\ response.task_id \in DOMAIN tasks) =>
        LET task == tasks[response.task_id] IN
        /\ (task.pc = "done" /\ task.result.status \in {"success", "error"}) =>
              /\ response.status = "SUCCESS"
              /\ response.result = task.result
              /\ response.error = None
        /\ (/\ task.pc = "done"
            /\ FileExists(task.file_id)
            /\ files[task.file_id].status = "failed") =>
              /\ response.status = "SUCCESS"
              /\ response.result.status = "error"
              /\ response.result.message # None
        /\ (task.pc = "done" /\ task.result.status = "raised") =>
              /\ response.status = "FAILURE"
              /\ response.result = NoResult
              /\ response.error = task.result.message
        /\ task.pc # "done" =>
              /\ response.status \in {"PENDING", "STARTED"}
              /\ response.result = NoResult
              /\ response.error = None

\* The status of the task of a File that failed at the vector store was
\* asked for
C23_Witness ==
    /\ response.op = "get_task_status"
    /\ response.status = "SUCCESS"
    /\ response.result.status = "error"
    /\ response.task_id \in DOMAIN tasks
    /\ FileExists(tasks[response.task_id].file_id)
    /\ files[tasks[response.task_id].file_id].error_message =
          "Failed to add to vector store"

FileState(row) ==
    <<row.status, row.error_message, row.total_chunks, row.processed_at>>

\* C24: the step that creates a File row creates it pending, with
\* total_chunks 0, no error message and no processed_at; and a step that
\* changes the status, error_message, total_chunks or processed_at of a File
\* is a step of the task of that File.
C24_OnlyTheRunMutates ==
    [][/\ \A f \in DOMAIN files' \ DOMAIN files :
            FileState(files'[f]) = <<"pending", None, 0, FALSE>>
       /\ \A f \in DOMAIN files \cap DOMAIN files' :
            FileState(files'[f]) # FileState(files[f]) =>
               \E t \in DOMAIN tasks :
                  /\ tasks[t].file_id = f
                  /\ tasks'[t] # tasks[t]
                  /\ tasks[t].pc \notin {"queued", "done"}]_vars

\* The File was polled while its run is at work and its upload is still
\* before the commit of the task id
C24_Witness ==
    /\ response.op = "get_file_status"
    /\ response.status_code = 200
    /\ response.status = "processing"
    /\ request.op = "upload_task_id"
    /\ request.file_id = response.file_id

\* The moves of a task from one step to the next: the order of the steps of
\* process_file_task, and from each of them the ways out of the sequence
StepOrder ==
    {<<"queued", "set_processing">>, <<"set_processing", "extract">>,
     <<"extract", "chunk">>, <<"chunk", "embed">>, <<"embed", "persist">>,
     <<"persist", "add_chunks">>, <<"add_chunks", "set_completed">>,
     <<"set_completed", "done">>,
     <<"extract", "no_text">>, <<"chunk", "no_chunks">>,
     <<"add_chunks", "add_failed">>,
     <<"no_text", "done">>, <<"no_chunks", "done">>, <<"add_failed", "done">>,
     <<"queued", "done">>, <<"except", "except_commit">>,
     <<"except", "done">>, <<"except_commit", "done">>}
    \cup {<<pc, "except">> : pc \in {"set_processing", "extract", "chunk",
                                     "embed", "persist", "no_text",
                                     "no_chunks", "add_failed", "set_completed"}}

\* C25: a task moves from step to step in the one order of the pipeline, and
\* every effect of the run belongs to its step: the File becomes processing
\* in the step before extraction; the fragments are obtained in the
\* extraction step, of a File that is processing; the chunking and the
\* embedding step work on fragments that were extracted and write nothing;
\* the Chunk rows of the File are written in the one step after the
\* embedding returned, when the File has no row and no entry yet; the
\* entries are added in the step after it, when the rows of a File that is
\* still there are all committed; and the File becomes completed in the step
\* after the add succeeded.
C25_StepOrder ==
    [][\A t \in DOMAIN tasks :
         LET a == tasks[t]
             b == tasks'[t]
             f == a.file_id
             n == Len(all_chunks(a.documents))
             becomes(status) == /\ f \in DOMAIN files \cap DOMAIN files'
                                /\ files[f].status # status
                                /\ files'[f].status = status IN
         /\ a.pc # b.pc => <<a.pc, b.pc>> \in StepOrder
         /\ becomes("processing") =>
               a.pc = "set_processing" /\ b.pc = "extract"
         /\ (a.documents = << >> /\ b.documents # << >>) =>
               /\ a.pc = "extract" /\ b.pc = "chunk"
               /\ files[f].status = "processing"
         /\ a.pc \in {"chunk", "embed"} =>
               /\ a.documents # << >>
               /\ ChunksOfFile(f) = {} /\ EntriesOfFile(f) = {}
               /\ a # b => UNCHANGED <<files, chunks, collection>>
         /\ a.pc = "embed" => n > 0
         /\ ~(ChunksOfFile(f)' \subseteq ChunksOfFile(f)) =>
               /\ a.pc = "persist" /\ b.pc = "add_chunks"
               /\ ChunksOfFile(f) = {} /\ EntriesOfFile(f) = {}
               /\ Cardinality(ChunksOfFile(f)') = n
         /\ ~(EntriesOfFile(f)' \subseteq EntriesOfFile(f)) =>
               /\ a.pc = "add_chunks" /\ b.pc = "set_completed"
               /\ EntriesOfFile(f) = {}
               /\ FileExists(f) => ChunkRows(f, n, a.suffix) \subseteq chunks
         /\ becomes("completed") =>
               a.pc = "set_completed" /\ b.pc = "done"]_vars

\* A run went through every step: its File is completed with the chunks of
\* two fragments
C25_Witness ==
    \E t \in DOMAIN tasks :
        /\ tasks[t].pc = "done"
        /\ tasks[t].result.status = "success"
        /\ tasks[t].result.total_chunks = 2
        /\ FileExists(tasks[t].file_id)
        /\ files[tasks[t].file_id].status = "completed"
        /\ Cardinality(EntriesOfFile(tasks[t].file_id)) = 2
        /\ Cardinality(ChunksOfFile(tasks[t].file_id)) = 2

\* C26: the Chunk rows of a File change in two ways only: from none to the
\* N rows of the N chunks of its run, with the indexes 0..N-1, in one
\* step; or from any number to none.  As a File starts with no row, it has 0
\* or N rows in every state, whatever step raised and wherever a run
\* stopped.
C26_ChunkRowsAllOrNothing ==
    [][\A f \in 1..MaxFiles :
         ChunksOfFile(f)' # ChunksOfFile(f) =>
            \/ ChunksOfFile(f)' = {}
            \/ /\ ChunksOfFile(f) = {}
               /\ \E t \in DOMAIN tasks :
                     /\ tasks[t].file_id = f
                     /\ tasks[t].pc = "persist"
                     /\ LET n == Len(all_chunks(tasks[t].documents)) IN
                        /\ Cardinality(ChunksOfFile(f)') = n
                        /\ {r.chunk_index : r \in ChunksOfFile(f)'} = 0..(n - 1)]_vars

\* A run wrote its two rows and then ended in the except clause, while
\* another run that raised in its commit of the rows left none
C26_Witness ==
    \E t, u \in DOMAIN tasks :
        /\ tasks[t].pc = "done" /\ tasks[t].exc # None
        /\ Cardinality(ChunksOfFile(tasks[t].file_id)) = 2
        /\ tasks[u].pc = "except" /\ tasks[u].bad
        /\ tasks[u].exc \in {"OperationalError", "IntegrityError"}
        /\ FileExists(tasks[u].file_id)
        /\ ChunksOfFile(tasks[u].file_id) = {}

\* The tasks whose rows are written and whose fragments are still at hand
Persisted ==
    {t \in DOMAIN tasks : /\ tasks[t].pc \in {"add_chunks", "add_failed", "set_completed"}
                          /\ FileExists(tasks[t].file_id)}

\* The chunk_index chunk_text gave the chunk at position i of all_chunks: its
\* ordinal within its own fragment
FragmentOrdinal(documents, i) == all_chunks(documents)[i].chunk_index

\* C27 (as stated): the chunk_index stored with the Chunk row and with the
\* entry of the chunk at a position of the concatenated sequence is the
\* ordinal of the chunk within its own fragment.
C27_PerFragmentIndex ==
    \A t \in Persisted :
       LET f == tasks[t].file_id
           n == Len(all_chunks(tasks[t].documents)) IN
       \A i \in 1..n :
          /\ \A r \in ChunksOfFile(f) :
                r.chunk_id = chunk_id(f, i - 1, tasks[t].suffix[i]) =>
                   r.chunk_index = FragmentOrdinal(tasks[t].documents, i)
          /\ \A e \in EntriesOfFile(f) :
                e.id = chunk_id(f, i - 1, tasks[t].suffix[i]) =>
                   e.chunk_index = FragmentOrdinal(tasks[t].documents, i)

\* C27 (amended): the chunks of the fragments are concatenated in fragment
\* order, each with the ordinal chunk_text gave it within its fragment; the
\* chunk_index stored with the Chunk row and with the entry of a chunk is
\* not that ordinal but the position of the chunk in the concatenated
\* sequence, counted from 0 over the whole file.
C27_GlobalIndex ==
    \A t \in Persisted :
       LET f == tasks[t].file_id
           documents == tasks[t].documents
           n == Len(all_chunks(documents))
           first == Len(chunk_text(Head(documents))) IN
       /\ SubSeq(all_chunks(documents), 1, first) = chunk_text(Head(documents))
       /\ SubSeq(all_chunks(documents), first + 1, n) = all_chunks(Tail(documents))
       /\ \A k \in 1..Len(documents) : documents[k] > 0 =>
             \E i \in 1..n : FragmentOrdinal(documents, i) = documents[k] - 1
       /\ \A i \in 1..n :
             /\ \A r \in ChunksOfFile(f) :
                   r.chunk_id = chunk_id(f, i - 1, tasks[t].suffix[i]) <=>
                      r.chunk_index = i - 1
             /\ \A e \in EntriesOfFile(f) :
                   e.id = chunk_id(f, i - 1, tasks[t].suffix[i]) <=>
                      e.chunk_index = i - 1
       /\ {r.chunk_index : r \in ChunksOfFile(f)} = 0..(n - 1)
       /\ EntriesOfFile(f) # {} =>
             {e.chunk_index : e \in EntriesOfFile(f)} = 0..(n - 1)

\* The chunks of a File of two fragments are stored, rows and entries: the
\* second has the ordinal 0 within its fragment and the stored index 1
C27_Witness ==
    \E t \in Persisted :
        /\ tasks[t].pc = "set_completed"
        /\ Len(tasks[t].documents) = 2
        /\ FragmentOrdinal(tasks[t].documents, 2) = 0
        /\ {r.chunk_index : r \in ChunksOfFile(tasks[t].file_id)} = {0, 1}
        /\ {e.chunk_index : e \in EntriesOfFile(tasks[t].file_id)} = {0, 1}

\* C28: the step that follows a chunking that gave no chunk of fragments
\* that were extracted is the return of the run, with the outcome "error"
\* and the File failed with the error "No chunks created"; the embedding
\* step is never reached, and the File has no Chunk row and no entry.
C28_NoChunksEndsFailed ==
    [][\A t \in DOMAIN tasks :
         (tasks[t].pc = "no_chunks" /\ tasks'[t] # tasks[t]) =>
            LET f == tasks[t].file_id IN
            /\ tasks[t].documents # << >>
            /\ tasks'[t].pc = "done"
            /\ tasks'[t].result.status = "error"
            /\ f \in DOMAIN files'
            /\ files'[f].status = "failed"
            /\ files'[f].error_message = "No chunks created"
            /\ {r \in chunks' : r.file_id = f} = {}
            /\ {e \in collection' : e.file_id = f} = {}]_vars

\* C29: a step of the run of a File leaves every other File as it is: its
\* row (status, error_message, total_chunks and the rest), its Chunk rows
\* and its entries of the collection.
C29_RunsIndependent ==
    [][\A t \in DOMAIN tasks :
         tasks'[t] # tasks[t] =>
            \A g \in 1..MaxFiles :
               g # tasks[t].file_id =>
                  /\ (g \in DOMAIN files) = (g \in DOMAIN files')
                  /\ g \in DOMAIN files => files'[g] = files[g]
                  /\ ChunksOfFile(g)' = ChunksOfFile(g)
                  /\ EntriesOfFile(g)' = EntriesOfFile(g)]_vars

\* The runs of two Files of one category at work at the same time: one has
\* its add refused and the other has its rows and entries written
C29_Witness ==
    \E t, u \in DOMAIN tasks :
        /\ tasks[t].pc = "add_failed" /\ tasks[u].pc = "set_completed"
        /\ tasks[t].category_id = tasks[u].category_id
        /\ FileExists(tasks[t].file_id) /\ FileExists(tasks[u].file_id)
        /\ files[tasks[u].file_id].status = "processing"
        /\ ChunksOfFile(tasks[t].file_id) # {}
        /\ EntriesOfFile(tasks[t].file_id) = {}
        /\ ChunksOfFile(tasks[u].file_id) # {}
        /\ EntriesOfFile(tasks[u].file_id) # {}

\* C30: no entry of the collection has the file_id of a File that is pending
\* or failed.
C30_NoEntryOfPendingOrFailed ==
    \A e \in collection :
        FileExists(e.file_id) => files[e.file_id].status \in {"processing", "completed"}

\* The entries of a File were added and the commit of its completed status
\* then raised: the run has ended and the File, with its entries, is still
\* processing
C30_Witness ==
    \E t \in DOMAIN tasks :
        /\ tasks[t].pc = "done"
        /\ tasks[t].result.status = "raised"
        /\ FileExists(tasks[t].file_id)
        /\ files[tasks[t].file_id].status = "processing"
        /\ EntriesOfFile(tasks[t].file_id) # {}

\* C31: in every state, a File has a processed_at if and only if its status
\* is completed, and an error_message if and only if its status is failed.
C31_TerminalBookkeeping ==
    \A f \in DOMAIN files :
        /\ files[f].processed_at <=> files[f].status = "completed"
        /\ files[f].error_message # None <=> files[f].status = "failed"

\* One File is completed and another was marked failed by the except
\* clause, with the message of the exception of the extraction
C31_Witness ==
    \E f, g \in DOMAIN files :
        /\ files[f].status = "completed" /\ files[f].processed_at
        /\ files[f].error_message = None
        /\ files[g].status = "failed" /\ ~files[g].processed_at
        /\ files[g].error_message = "ExtractionError"

\* C32: the step that dispatches a task dispatches it for a File row that
\* is committed, pending; a run whose session opens goes on with its File,
\* and returns "File not found" only for a File that was created and then
\* deleted; and the upload's commit of the task id, wherever the run of the
\* File has got to by then, changes the task_id of the row and nothing else:
\* a status the worker wrote is never pending again.
C32_UploadWorkerRace ==
    [][/\ \A t \in DOMAIN tasks' \ DOMAIN tasks :
            /\ FileExists(tasks'[t].file_id)
            /\ files[tasks'[t].file_id].status = "pending"
            /\ tasks'[t].pc = "queued"
       /\ \A t \in DOMAIN tasks :
            (tasks[t].pc = "queued" /\ tasks'[t] # tasks[t]) =>
               LET f == tasks[t].file_id IN
               /\ tasks'[t].pc = "set_processing" => FileExists(f)
               /\ (FileExists(f) /\ tasks'[t].pc = "done") =>
                     tasks'[t].result.status = "raised"
               /\ tasks'[t].result.message = "File not found" =>
                     ~FileExists(f) /\ f < nextFileId
       /\ (request.op = "upload_task_id" /\ request' # request) =>
            \A f \in DOMAIN files :
               /\ f \in DOMAIN files'
               /\ FileState(files'[f]) = FileState(files[f])
               /\ files'[f].status = "pending" => files[f].status = "pending"
               /\ f = request.file_id =>
                     files'[f] = [files[f] EXCEPT !.task_id = request.task_id]
               /\ f # request.file_id => files'[f] = files[f]
       /\ \A f \in DOMAIN files \cap DOMAIN files' :
            files'[f].status = "pending" => files[f].status = "pending"]_vars

\* The run of a File has ended with the File completed while the upload
\* that dispatched it is still before its commit of the task id
C32_Witness ==
    /\ request.op = "upload_task_id"
    /\ request.task_id \in DOMAIN tasks
    /\ tasks[request.task_id].pc = "done"
    /\ tasks[request.task_id].file_id = request.file_id
    /\ FileExists(request.file_id)
    /\ files[request.file_id].status = "completed"
    /\ files[request.file_id].task_id = 0
====
